---- MODULE Spec2Model ----
(***************************************************************************)
(* Model of the in-memory ledger of src/utils/blockchain.js                *)
(* (class BlockchainUtils, exported as a process-wide singleton).          *)
(*                                                                         *)
(* JavaScript values are represented as follows.                           *)
(*  - A string that the code takes prefixes of (a block or transaction     *)
(*    hash) is a sequence of one-character strings.                        *)
(*  - The value undefined of a hash field is the one-element sequence      *)
(*    <<"undefined">>, which no character sequence equals.                 *)
(*  - A number that may be fractional (difficulty) is a record             *)
(*    [whole, half]: whole + 0.5 when half is TRUE.                        *)
(*  - null in a numeric field (blockNumber) is -1.                         *)
(*  - An array of transactions is a sequence.  The only array the code     *)
(*    ever mutates in place is the one this.pendingTransactions refers to  *)
(*    (push in addTransaction), so reference identity is kept only for     *)
(*    it: poolAliases is the set of chain positions whose transactions     *)
(*    field is that very array object.                                     *)
(*  - The process is single-threaded and every method is synchronous, so   *)
(*    while mineBlock is inside its do/while loop no other method runs.    *)
(***************************************************************************)
EXTENDS Integers, Sequences, FiniteSets, TLC

\* ---------------------------------------------------------------- bounds
MaxChain == 2
MaxPool == 2
MaxTime == 1
MaxNonce == 1
MaxRequests == 2

\* ------------------------------------------------------- JavaScript values
undefined == <<"undefined">>
null == 0 - 1

ObjectObject ==
  <<"[", "o", "b", "j", "e", "c", "t", " ", "O", "b", "j", "e", "c", "t", "]">>

JsNumber(w, h) == [whole |-> w, half |-> h]

\* truthiness of a number: 0 (like undefined) is falsy, everything else truthy
Truthy(d) == d.whole # 0 \/ d.half

\* ToIntegerOrInfinity of a non-negative number, as applied by
\* String.prototype.substring and String.prototype.repeat to their argument
ToIntegerOrInfinity(d) == d.whole

\* s.substring(0, n)
Substring0(s, n) == SubSeq(s, 1, IF n < Len(s) THEN n ELSE Len(s))

\* '0'.repeat(n)
RepeatZero(n) == [i \in 1..n |-> "0"]

\* Date.now() advances in steps of one hour, 60 * 60 * 1000 ms (line 417)
HourMs == 60 * 60 * 1000

\* ------------------------------------------------------------- hashing
\* crypto.createHash('sha256').update(data): update returns the Hash object
HashUpdate(data) == [algorithm |-> "sha256", content |-> data]

\* .toString('hex') on the Hash object: Hash defines no toString, so this is
\* Object.prototype.toString, which ignores its argument and the content
\* (the digest would be .digest('hex'), which the code never calls)
HashToString(h, enc) == ObjectObject

CalculateHash(index, timestamp, transactions, previousHash, nonce) ==
  \* data = index + timestamp + JSON.stringify(transactions) + previousHash + nonce
  \* (index + timestamp is a numeric addition, the rest string concatenation)
  HashToString(HashUpdate(<<index + timestamp, transactions, previousHash, nonce>>), "hex")

GenerateTransactionHash(transaction, t) ==
  HashToString(HashUpdate(<<transaction.type, transaction.signedBy, transaction.data, t>>), "hex")

\* ------------------------------------------------------------------ state
VARIABLES
  chain,                 \* this.chain: sequence of blocks
  pendingTransactions,   \* this.pendingTransactions: sequence of transactions
  poolAliases,           \* chain positions whose transactions array IS the pool array
  difficulty,            \* this.difficulty
  now,                   \* Date.now()
  pc,                    \* "idle", or "mining" inside the do/while of mineBlock
  mining,                \* locals of the running mineBlock call
  result,                \* the last call: its name, whether it returned, threw or
                         \* is still running, and a returned count
  records,               \* the Transaction collection: status record per _id
  requests,              \* PUT /:id/confirm and PUT /:id/fail requests in flight
  exported               \* the object a client got from exportBlockchain() and kept

ledgerVars == <<chain, pendingTransactions, poolAliases, difficulty, now, pc, mining, result>>

recordVars == <<records, requests>>

vars == <<chain, pendingTransactions, poolAliases, difficulty, now, pc, mining, result,
          records, requests, exported>>

Block(index, timestamp, transactions, previousHash, hash, nonce) ==
  [index |-> index, timestamp |-> timestamp, transactions |-> transactions,
   previousHash |-> previousHash, hash |-> hash, nonce |-> nonce]

Result(op, status, value) == [op |-> op, status |-> status, value |-> value]

NoMining ==
  [newIndex |-> 0, newTimestamp |-> 0, transactions |-> <<>>, live |-> FALSE,
   previousHash |-> undefined, nonce |-> 0]

\* createGenesisBlock: the block pushed by the constructor.  Date.now() is
\* read twice (lines 27 and 30); both reads feed only the timestamp field and
\* the hashed data.
\* faulty variant (previousHash set to the block's own hash), for C1
CreateGenesisBlockLinked(t) ==
  Block(0, t, <<>>, CalculateHash(0, t, <<>>, <<"0">>, 0), CalculateHash(0, t, <<>>, <<"0">>, 0), 0)
CreateGenesisBlock(t) ==
  Block(0, t, <<>>, <<"0">>, CalculateHash(0, t, <<>>, <<"0">>, 0), 0)

\* ---------------------------------------------- transaction status records
\* the fields of a Transaction document that confirm and fail touch
Document(status, confirmations, confirmedBy) ==
  [status |-> status, confirmations |-> confirmations, confirmedBy |-> confirmedBy]

\* findById resolving to null
NoDocument == Document("null", 0, <<>>)

\* _id values of stored documents, and the ids requests may name: a stored
\* one, a well-formed ObjectId that names no document, and a string that is
\* no ObjectId (the route does not validate req.params.id)
TransactionIds == {"t1"}

RequestedIds == TransactionIds \cup {"unknown", "malformed"}

\* whether Mongoose can cast the string to an ObjectId
IsObjectId(id) == id # "malformed"

\* a request slot: idle (code is the last response sent, 0 if none) or
\* suspended after findById with the document it read
Request(phase, kind, id, doc, code) ==
  [phase |-> phase, kind |-> kind, id |-> id, doc |-> doc, code |-> code]

\* schema defaults: status 'pending', confirmations 0, no confirmedBy entry
InitRecords ==
  /\ records = [id \in TransactionIds |-> Document("pending", 0, <<>>)]
  /\ requests = [q \in 1..MaxRequests |-> Request("idle", "none", "none", NoDocument, 0)]

\* the snapshot object kept by a client: its chain and pendingTransactions
\* as they read now; chainLive and poolLive tell that they are the very
\* arrays this.chain and this.pendingTransactions; aliases are the blocks
\* whose transactions array is the snapshot's pendingTransactions array
Kept(held, c, pool, d, chainLive, poolLive, aliases) ==
  [held |-> held, chain |-> c, pendingTransactions |-> pool, difficulty |-> d,
   chainLive |-> chainLive, poolLive |-> poolLive, aliases |-> aliases]

NoExport == Kept(FALSE, <<>>, <<>>, JsNumber(0, FALSE), FALSE, FALSE, {})

\* constructor
Init ==
  /\ InitRecords
  /\ exported = NoExport
  /\ difficulty = JsNumber(4, FALSE)
  /\ pendingTransactions = <<>>
  /\ chain = <<CreateGenesisBlock(0)>>
  /\ poolAliases = {}
  /\ now = 0
  /\ pc = "idle"
  /\ mining = NoMining
  /\ result = Result("constructor", "returned", 0)

\* getLatestBlock (only called on a non-empty chain in the model; on an empty
\* chain the code yields undefined, see MineBlock)
GetLatestBlock == chain[Len(chain)]

\* ------------------------------------------------------------- validation
Falsy(v) == v \in {"", "undefined"}

VerifySignature(transaction) == TRUE

SomeHash(transactions, hash) ==
  \E j \in DOMAIN transactions : transactions[j].hash = hash

TransactionExists(hash) ==
  \/ \E i \in DOMAIN chain : SomeHash(chain[i].transactions, hash)
  \/ SomeHash(pendingTransactions, hash)

\* faulty variant (data is not required), for C14
IsValidTransactionNoData(transaction) ==
  IF Falsy(transaction.type) \/ Falsy(transaction.signedBy)
  THEN FALSE
  ELSE IF ~VerifySignature(transaction)
  THEN FALSE
  ELSE IF TransactionExists(transaction.hash)
  THEN FALSE
  ELSE TRUE
IsValidTransaction(transaction) ==
  IF Falsy(transaction.type) \/ Falsy(transaction.signedBy) \/ Falsy(transaction.data)
  THEN FALSE
  ELSE IF ~VerifySignature(transaction)
  THEN FALSE
  ELSE IF TransactionExists(transaction.hash)
  THEN FALSE
  ELSE TRUE

\* ------------------------------------------------------------- integrity
\* faulty variant (loop starts one pair too late), for C4
LinkageOkSkipFirst(c) ==
  \A i \in 3..Len(c) : c[i].previousHash = c[i - 1].hash
LinkageOk(c) ==
  \A i \in 2..Len(c) : c[i].previousHash = c[i - 1].hash

\* faulty variant (the hash of a block is not recomputed), for C22
IsChainValidLinkageOnly(c) ==
  \A i \in 2..Len(c) : c[i].previousHash = c[i - 1].hash
\* faulty variant (the loop stops one block early), for C24
IsChainValidSkipLast(c) ==
  \A i \in 2..(Len(c) - 1) :
    /\ c[i].previousHash = c[i - 1].hash
    /\ c[i].hash = CalculateHash(c[i].index, c[i].timestamp, c[i].transactions,
                                 c[i].previousHash, c[i].nonce)
IsChainValidOf(c) ==
  \A i \in 2..Len(c) :
    /\ c[i].previousHash = c[i - 1].hash
    /\ c[i].hash = CalculateHash(c[i].index, c[i].timestamp, c[i].transactions,
                                 c[i].previousHash, c[i].nonce)

IsChainValid == IsChainValidOf(chain)

\* ------------------------------------------------------------------ inputs
\* transaction objects handed to addTransaction: falsy or present required
\* fields, and a hash field that is absent or left over from an earlier
\* admission of the same object
InputTransactions ==
  [type : {"", "project_action"}, signedBy : {"", "user1"},
   data : {"undefined", "d1"}, hash : {undefined, ObjectObject},
   timestamp : {0}, blockNumber : {null}]

\* ---------------------------------------------------------- addTransaction
\* the three assignments of lines 91-93 on the transaction object
Admit(transaction, t) ==
  [transaction EXCEPT !.hash = GenerateTransactionHash(transaction, t),
                      !.timestamp = t,
                      !.blockNumber = null]

\* this.pendingTransactions.push(tx): an in-place push, seen through every
\* reference to the same array
PushAliased(c, aliases, tx) ==
  [i \in DOMAIN c |->
     IF i \in aliases
     THEN [c[i] EXCEPT !.transactions = Append(@, tx)]
     ELSE c[i]]

AddTransaction(transaction) ==
  /\ pc = "idle"
  /\ Len(pendingTransactions) < MaxPool
  /\ IF ~IsValidTransaction(transaction)
     THEN /\ result' = Result("addTransaction", "threw", 0)
          /\ UNCHANGED <<chain, pendingTransactions>>
     ELSE /\ pendingTransactions' = Append(pendingTransactions, Admit(transaction, now))
          /\ chain' = PushAliased(chain, poolAliases, Admit(transaction, now))
          /\ result' = Result("addTransaction", "returned", 0)
  /\ UNCHANGED <<poolAliases, difficulty, now, pc, mining>>

\* ---------------------------------------------------------------- mineBlock
\* arrays a caller hands to mineBlock: the live pool array itself
\* (mineBlock(this.pendingTransactions)) or a fresh array holding the pool's
\* entries (mineBlock([...pendingTransactions]))
MineArguments ==
  {[live |-> TRUE, transactions |-> pendingTransactions],
   [live |-> FALSE, transactions |-> pendingTransactions]}

\* faulty variant (index not incremented), for C2
NewIndexSame(previousBlock) == previousBlock.index
NewIndex(previousBlock) == previousBlock.index + 1

\* lines 56-59: the reads before the loop; on an empty chain previousBlock is
\* undefined and previousBlock.index throws a TypeError
MineBlock(arg) ==
  /\ pc = "idle"
  /\ Len(chain) < MaxChain
  /\ IF Len(chain) = 0
     THEN /\ result' = Result("mineBlock", "threw", 0)
          /\ UNCHANGED <<pc, mining>>
     ELSE /\ pc' = "mining"
          /\ mining' = [newIndex |-> NewIndex(GetLatestBlock),
                        newTimestamp |-> now,
                        transactions |-> arg.transactions,
                        live |-> arg.live,
                        previousHash |-> GetLatestBlock.hash,
                        nonce |-> 0]
          /\ result' = Result("mineBlock", "running", 0)
  /\ UNCHANGED <<chain, pendingTransactions, poolAliases, difficulty, now>>

\* the loop condition of line 66, negated: the hash has the required prefix
HasPrefix(newHash, d) ==
  Substring0(newHash, ToIntegerOrInfinity(d)) = RepeatZero(ToIntegerOrInfinity(d))

\* faulty variant (stores a truncated hash), for C3
NewBlockTruncated(m, newHash, nonce) ==
  Block(m.newIndex, m.newTimestamp, m.transactions, m.previousHash,
        Substring0(newHash, 8), nonce)
\* the block built at lines 68-75; nonce is the loop variable after nonce++
NewBlock(m, newHash, nonce) ==
  Block(m.newIndex, m.newTimestamp, m.transactions, m.previousHash, newHash, nonce)

\* one iteration of the do/while of lines 63-66, and on exit lines 68-78
ProofOfWork ==
  /\ pc = "mining"
  /\ mining.nonce < MaxNonce
  /\ LET newHash == CalculateHash(mining.newIndex, mining.newTimestamp,
                                  mining.transactions, mining.previousHash, mining.nonce)
         nonce == mining.nonce + 1
     IN IF ~HasPrefix(newHash, difficulty)
        THEN /\ mining' = [mining EXCEPT !.nonce = nonce]
             /\ UNCHANGED <<chain, poolAliases, pc, result>>
        ELSE /\ chain' = Append(chain, NewBlock(mining, newHash, nonce))
             /\ poolAliases' = IF mining.live
                               THEN poolAliases \cup {Len(chain) + 1}
                               ELSE poolAliases
             /\ pc' = "idle"
             /\ mining' = NoMining
             /\ result' = Result("mineBlock", "returned", 0)
  /\ UNCHANGED <<pendingTransactions, difficulty, now>>

\* ------------------------------------------- cleanupOldPendingTransactions
\* this.pendingTransactions.filter(tx => tx.timestamp > cutoffTime)
\* faulty variant (an entry exactly at the cutoff is kept), for C17
FilterNotOlder(seq, cutoffTime) ==
  LET F[i \in 0..Len(seq)] ==
        IF i = 0 THEN <<>>
        ELSE IF seq[i].timestamp >= cutoffTime THEN Append(F[i - 1], seq[i]) ELSE F[i - 1]
  IN F[Len(seq)]
FilterYounger(seq, cutoffTime) ==
  LET F[i \in 0..Len(seq)] ==
        IF i = 0 THEN <<>>
        ELSE IF seq[i].timestamp > cutoffTime THEN Append(F[i - 1], seq[i]) ELSE F[i - 1]
  IN F[Len(seq)]

CleanupOldPendingTransactions(maxAgeInHours) ==
  /\ pc = "idle"
  /\ LET cutoffTime == now - (maxAgeInHours * HourMs)
         initialCount == Len(pendingTransactions)
         kept == FilterYounger(pendingTransactions, cutoffTime)
     IN /\ pendingTransactions' = kept
        /\ result' = Result("cleanupOldPendingTransactions", "returned", initialCount - Len(kept))
  /\ poolAliases' = {}   \* filter returns a new array
  /\ UNCHANGED <<chain, difficulty, now, pc, mining>>

\* ------------------------------------------- exportBlockchain / importBlockchain
\* a snapshot object: hasChain is FALSE when data.chain is missing or not an
\* array, hasPending is FALSE when data.pendingTransactions is missing, and a
\* missing difficulty is the falsy number 0
Snapshot(hasChain, c, hasPending, pool, d) ==
  [hasChain |-> hasChain, chain |-> c, hasPending |-> hasPending,
   pendingTransactions |-> pool, difficulty |-> d]

\* exportedAt and version are not read by importBlockchain
ExportBlockchain ==
  Snapshot(TRUE, chain, TRUE, pendingTransactions, difficulty)

\* line 465: data.pendingTransactions || []
\* faulty variant (the snapshot's pool is merged into the current one), for C23
ImportedPoolMerged(data) ==
  pendingTransactions \o (IF data.hasPending THEN data.pendingTransactions ELSE <<>>)
\* faulty variant (pool always reset), for C10
ImportedPoolEmpty(data) == <<>>
ImportedPool(data) ==
  IF data.hasPending THEN data.pendingTransactions ELSE <<>>

\* importBlockchain(data); sameArrays tells that data.pendingTransactions and
\* the blocks of data.chain are the ledger's own array objects (a snapshot
\* that exportBlockchain just returned), so aliasing with the pool survives
\* faulty variant (an import may run while a mineBlock call is searching),
\* for C21
ImportWhileMining(data, sameArrays, op) ==
  /\ IF ~data.hasChain
     THEN /\ result' = Result(op, "threw", 0)
          /\ UNCHANGED <<chain, pendingTransactions, poolAliases, difficulty>>
     ELSE IF ~LinkageOk(data.chain)
     THEN /\ result' = Result(op, "threw", 1)
          /\ UNCHANGED <<chain, pendingTransactions, poolAliases, difficulty>>
     ELSE /\ chain' = data.chain
          /\ pendingTransactions' = ImportedPool(data)
          /\ difficulty' = IF Truthy(data.difficulty) THEN data.difficulty ELSE difficulty
          /\ poolAliases' = IF sameArrays THEN poolAliases ELSE {}
          /\ result' = Result(op, "returned", 0)
  /\ UNCHANGED <<now, pc, mining>>
\* faulty variant (the pool is reset before the linkage is checked), for C11
ImportResetsFirst(data, sameArrays, op) ==
  /\ pc = "idle"
  /\ IF ~data.hasChain
     THEN /\ result' = Result(op, "threw", 0)
          /\ UNCHANGED <<chain, pendingTransactions, poolAliases, difficulty>>
     ELSE IF ~LinkageOk(data.chain)
     THEN /\ result' = Result(op, "threw", 1)
          /\ pendingTransactions' = <<>>
          /\ UNCHANGED <<chain, poolAliases, difficulty>>
     ELSE /\ chain' = data.chain
          /\ pendingTransactions' = ImportedPool(data)
          /\ difficulty' = IF Truthy(data.difficulty) THEN data.difficulty ELSE difficulty
          /\ poolAliases' = IF sameArrays THEN poolAliases ELSE {}
          /\ result' = Result(op, "returned", 0)
  /\ UNCHANGED <<now, pc, mining>>
Import(data, sameArrays, op) ==
  /\ pc = "idle"
  /\ IF ~data.hasChain
     THEN /\ result' = Result(op, "threw", 0)
          /\ UNCHANGED <<chain, pendingTransactions, poolAliases, difficulty>>
     ELSE IF ~LinkageOk(data.chain)
     THEN /\ result' = Result(op, "threw", 1)
          /\ UNCHANGED <<chain, pendingTransactions, poolAliases, difficulty>>
     ELSE /\ chain' = data.chain
          /\ pendingTransactions' = ImportedPool(data)
          /\ difficulty' = IF Truthy(data.difficulty) THEN data.difficulty ELSE difficulty
          /\ poolAliases' = IF sameArrays THEN poolAliases ELSE {}
          /\ result' = Result(op, "returned", 0)
  /\ UNCHANGED <<now, pc, mining>>

\* snapshots handed to importBlockchain from outside
H1 == <<"h", "1">>

SnapshotTransaction(data, hash) ==
  [type |-> "project_action", signedBy |-> "user1", data |-> data, hash |-> hash,
   timestamp |-> 0, blockNumber |-> null]

SnapshotFirstBlocks ==
  {Block(0, 0, <<>>, <<"0">>, ObjectObject, 0)}

\* a second block that is sound, or has the wrong index, or a hash that is
\* not the recomputed one, or a previousHash that is not the first block's hash
SnapshotNextBlocks ==
  {Block(1, 0, <<SnapshotTransaction("d1", H1)>>, ObjectObject, ObjectObject, 0),
   Block(0, 0, <<SnapshotTransaction("d1", H1)>>, ObjectObject, ObjectObject, 0),
   Block(1, 0, <<SnapshotTransaction("d1", H1)>>, ObjectObject, H1, 0),
   Block(1, 0, <<SnapshotTransaction("d1", H1)>>, H1, ObjectObject, 0)}

\* a first block that holds a transaction and whose stored hash is not the
\* one recomputed from its fields
SnapshotBadFirstBlock ==
  Block(0, 0, <<SnapshotTransaction("d1", H1)>>, <<"0">>, H1, 0)

SnapshotChains ==
  {<<>>, <<SnapshotBadFirstBlock>>} \cup {<<b>> : b \in SnapshotFirstBlocks}
         \cup {<<b, c>> : b \in SnapshotFirstBlocks, c \in SnapshotNextBlocks}

\* data.difficulty: absent (falsy, the ledger keeps its own), or 0.5, the
\* simplest truthy number that substring and repeat truncate to 0
SnapshotDifficulties ==
  {JsNumber(0, FALSE), JsNumber(0, TRUE)}

Snapshots ==
  {Snapshot(FALSE, <<>>, FALSE, <<>>, JsNumber(0, FALSE))} \cup
  {Snapshot(TRUE, c, hp, IF hp THEN <<SnapshotTransaction("d2", <<"h", "2">>)>> ELSE <<>>, d) :
     c \in SnapshotChains, hp \in BOOLEAN, d \in SnapshotDifficulties}

ImportBlockchain(data) == Import(data, FALSE, "importBlockchain")

\* importBlockchain(exportBlockchain())
ImportExported == Import(ExportBlockchain, TRUE, "importExported")

\* ----------------------------------------------------------------- clock
\* time read by Date.now(); it is only read at the start of a call, so its
\* advance while mineBlock loops is not modelled separately
Tick ==
  /\ pc = "idle"
  /\ now < MaxTime * HourMs
  /\ now' = now + HourMs
  /\ UNCHANGED <<chain, pendingTransactions, poolAliases, difficulty, pc, mining, result>>

MaxAges == {0, 1, 24}

Next ==
  \/ (\E transaction \in InputTransactions : AddTransaction(transaction))
       /\ UNCHANGED <<recordVars, exported>>
  \/ (\E arg \in MineArguments : MineBlock(arg)) /\ UNCHANGED <<recordVars, exported>>
  \/ ProofOfWork /\ UNCHANGED <<recordVars, exported>>
  \/ (\E maxAgeInHours \in MaxAges : CleanupOldPendingTransactions(maxAgeInHours))
       /\ UNCHANGED <<recordVars, exported>>
  \/ (\E data \in Snapshots : ImportBlockchain(data)) /\ UNCHANGED <<recordVars, exported>>
  \/ ImportExported /\ UNCHANGED <<recordVars, exported>>
  \/ Tick /\ UNCHANGED <<recordVars, exported>>

Spec == Init /\ [][Next]_vars

\* ------------------------------------------------------ getTransactionStatus
\* the first position at which pred-holding entries start: Array.prototype.find
\* and for..of both stop at the lowest index
FirstIndex(S) == CHOOSE i \in S : \A j \in S : i <= j

\* return null (line 184)
NullStatus == [status |-> "null"]

StatusReport(status, blockNumber, confirmations, timestamp, hash) ==
  [status |-> status, blockNumber |-> blockNumber, confirmations |-> confirmations,
   timestamp |-> timestamp, hash |-> hash]

\* faulty variant (a sealed transaction always counts one confirmation),
\* for C30
GetTransactionStatusNoDepth(transactionHash) ==
  LET blocks == {i \in DOMAIN chain : SomeHash(chain[i].transactions, transactionHash)}
      pending == {j \in DOMAIN pendingTransactions :
                    pendingTransactions[j].hash = transactionHash}
  IN IF blocks # {}
     THEN LET block == chain[FirstIndex(blocks)]
          IN StatusReport("confirmed", block.index, 1, block.timestamp, block.hash)
     ELSE IF pending # {}
     THEN StatusReport("pending", null, 0,
                       pendingTransactions[FirstIndex(pending)].timestamp, null)
     ELSE NullStatus

\* faulty variant (the pool is searched before the chain), for C13
GetTransactionStatusPoolFirst(transactionHash) ==
  LET blocks == {i \in DOMAIN chain : SomeHash(chain[i].transactions, transactionHash)}
      pending == {j \in DOMAIN pendingTransactions :
                    pendingTransactions[j].hash = transactionHash}
  IN IF pending # {}
     THEN StatusReport("pending", null, 0,
                       pendingTransactions[FirstIndex(pending)].timestamp, null)
     ELSE IF blocks # {}
     THEN LET block == chain[FirstIndex(blocks)]
          IN StatusReport("confirmed", block.index, Len(chain) - block.index,
                          block.timestamp, block.hash)
     ELSE NullStatus
GetTransactionStatus(transactionHash) ==
  LET blocks == {i \in DOMAIN chain : SomeHash(chain[i].transactions, transactionHash)}
      pending == {j \in DOMAIN pendingTransactions :
                    pendingTransactions[j].hash = transactionHash}
  IN IF blocks # {}
     THEN LET block == chain[FirstIndex(blocks)]
          IN StatusReport("confirmed", block.index, Len(chain) - block.index,
                          block.timestamp, block.hash)
     ELSE IF pending # {}
     THEN StatusReport("pending", null, 0,
                       pendingTransactions[FirstIndex(pending)].timestamp, null)
     ELSE NullStatus

\* the hashes a caller may ask about
StatusHashes == {undefined, ObjectObject, H1, <<"h", "2">>}

\* ------------------------------------------------------- read-only calls
\* a call of isChainValid(): the value returned is recorded (1 for true,
\* 0 for false); the method assigns no field
IsChainValidCall ==
  /\ pc = "idle"
  /\ result' = Result("isChainValid", "returned", IF IsChainValid THEN 1 ELSE 0)
  /\ UNCHANGED <<chain, pendingTransactions, poolAliases, difficulty, now, pc, mining>>

\* getTransactionHistory(transactionHash): the 'mined' event of the first
\* block holding the hash is pushed, then the 'created' event of the first
\* pool entry with the hash is put in front of it
MinedEvent(block) ==
  [action |-> "mined", blockNumber |-> block.index, timestamp |-> block.timestamp,
   blockHash |-> block.hash]

CreatedEvent(pendingTx) ==
  [action |-> "created", timestamp |-> pendingTx.timestamp]

GetTransactionHistory(transactionHash) ==
  LET blocks == {i \in DOMAIN chain : SomeHash(chain[i].transactions, transactionHash)}
      pending == {j \in DOMAIN pendingTransactions :
                    pendingTransactions[j].hash = transactionHash}
      history == IF blocks # {} THEN <<MinedEvent(chain[FirstIndex(blocks)])>> ELSE <<>>
  IN IF pending # {}
     THEN <<CreatedEvent(pendingTransactions[FirstIndex(pending)])>> \o history
     ELSE history

\* a call of getTransactionHistory: the number of events returned is recorded
GetTransactionHistoryCall(transactionHash) ==
  /\ pc = "idle"
  /\ result' = Result("getTransactionHistory", "returned",
                      Len(GetTransactionHistory(transactionHash)))
  /\ UNCHANGED <<chain, pendingTransactions, poolAliases, difficulty, now, pc, mining>>

\* getBlockchainStats(): getLatestBlock().hash throws a TypeError when the
\* chain is empty (getLatestBlock() is then undefined)
GetBlockchainStatsThrows == Len(chain) = 0

\* chain.reduce((total, block) => total + block.transactions.length, 0)
TotalTransactions ==
  LET F[i \in 0..Len(chain)] ==
        IF i = 0 THEN 0 ELSE F[i - 1] + Len(chain[i].transactions)
  IN F[Len(chain)]

\* Math.round of the mean nonce of the blocks after the first, 0 when there
\* is none
AverageDifficulty ==
  LET F[i \in 1..Len(chain)] == IF i = 1 THEN 0 ELSE F[i - 1] + chain[i].nonce
  IN IF Len(chain) > 1
     THEN (2 * F[Len(chain)] + (Len(chain) - 1)) \div (2 * (Len(chain) - 1))
     ELSE 0

\* the object returned when the call does not throw
GetBlockchainStats ==
  [totalTransactions |-> TotalTransactions,
   pendingTransactions |-> Len(pendingTransactions),
   totalBlocks |-> Len(chain),
   averageDifficulty |-> AverageDifficulty,
   lastBlockHash |-> GetLatestBlock.hash,
   lastBlockTimestamp |-> GetLatestBlock.timestamp,
   chainIntegrity |-> IsChainValid]

\* a call of getBlockchainStats: the totalTransactions returned is recorded
GetBlockchainStatsCall ==
  /\ pc = "idle"
  /\ result' = IF GetBlockchainStatsThrows
               THEN Result("getBlockchainStats", "threw", 0)
               ELSE Result("getBlockchainStats", "returned",
                           GetBlockchainStats.totalTransactions)
  /\ UNCHANGED <<chain, pendingTransactions, poolAliases, difficulty, now, pc, mining>>

\* GET /api/health: health.status starts 'healthy', becomes 'degraded' when
\* MongoDB is not connected and 'unhealthy' when getBlockchainStats throws;
\* chainIntegrity is copied into the answer and not looked at
HealthStatus(dbConnected) ==
  LET afterDatabase == IF dbConnected THEN "healthy" ELSE "degraded"
  IN IF GetBlockchainStatsThrows THEN "unhealthy" ELSE afterDatabase

\* const statusCode = ... (lines 77-78)
HealthStatusCode(status) ==
  IF status = "healthy" THEN 200 ELSE IF status = "degraded" THEN 200 ELSE 503

GetHealth(dbConnected) ==
  /\ pc = "idle"
  /\ result' = Result("GET /health", "returned", HealthStatusCode(HealthStatus(dbConnected)))
  /\ UNCHANGED <<chain, pendingTransactions, poolAliases, difficulty, now, pc, mining>>

\* GET /api/health/ready
ReadyStatus(dbConnected) ==
  IF ~dbConnected THEN "not_ready"
  ELSE IF GetBlockchainStatsThrows THEN "not_ready"
  ELSE IF ~GetBlockchainStats.chainIntegrity THEN "not_ready"
  ELSE "ready"

GetReady(dbConnected) ==
  /\ pc = "idle"
  /\ result' = Result("GET /health/ready", "returned",
                      IF ReadyStatus(dbConnected) = "ready" THEN 200 ELSE 503)
  /\ UNCHANGED <<chain, pendingTransactions, poolAliases, difficulty, now, pc, mining>>

\* the ledger's operations together with its read-only calls
NextQueries ==
  \/ Next
  \/ IsChainValidCall /\ UNCHANGED <<recordVars, exported>>
  \/ (\E transactionHash \in StatusHashes : GetTransactionHistoryCall(transactionHash))
       /\ UNCHANGED <<recordVars, exported>>
  \/ GetBlockchainStatsCall /\ UNCHANGED <<recordVars, exported>>
  \/ (\E dbConnected \in BOOLEAN : GetHealth(dbConnected)) /\ UNCHANGED <<recordVars, exported>>
  \/ (\E dbConnected \in BOOLEAN : GetReady(dbConnected)) /\ UNCHANGED <<recordVars, exported>>

SpecQueries == Init /\ [][NextQueries]_vars

\* ------------------------------------------------- a snapshot that is kept
\* exportBlockchain() returns this.chain and this.pendingTransactions
\* themselves, not copies (the first snapshot is the one followed)
ExportBlockchainCall ==
  /\ pc = "idle"
  /\ ~exported.held
  /\ exported' = Kept(TRUE, chain, pendingTransactions, difficulty, TRUE, TRUE, poolAliases)
  /\ result' = Result("exportBlockchain", "returned", 0)
  /\ UNCHANGED <<chain, pendingTransactions, poolAliases, difficulty, now, pc, mining>>

\* what the kept object reads after a step of the ledger: pushes into an
\* array it shares are seen through it; poolReplaced tells that the step
\* assigned a new array to this.pendingTransactions
KeptAfter(poolReplaced) ==
  IF ~exported.held THEN exported
  ELSE Kept(TRUE,
            IF exported.chainLive THEN chain' ELSE exported.chain,
            IF exported.poolLive /\ ~poolReplaced
            THEN pendingTransactions' ELSE exported.pendingTransactions,
            exported.difficulty,
            exported.chainLive,
            exported.poolLive /\ ~poolReplaced,
            IF exported.poolLive /\ ~poolReplaced THEN poolAliases' ELSE exported.aliases)

\* importBlockchain(snapshot) with the kept object
ImportKept ==
  /\ pc = "idle"
  /\ exported.held
  /\ IF ~LinkageOk(exported.chain)
     THEN /\ result' = Result("importKept", "threw", 1)
          /\ UNCHANGED <<chain, pendingTransactions, poolAliases, difficulty, exported>>
     ELSE /\ chain' = exported.chain
          /\ pendingTransactions' = exported.pendingTransactions
          /\ difficulty' = IF Truthy(exported.difficulty) THEN exported.difficulty
                           ELSE difficulty
          /\ poolAliases' = exported.aliases
          /\ exported' = [exported EXCEPT !.chainLive = TRUE, !.poolLive = TRUE]
          /\ result' = Result("importKept", "returned", 0)
  /\ UNCHANGED <<now, pc, mining>>

\* the ledger's operations with a client that keeps a snapshot; foreign
\* snapshots are imported before the snapshot is taken
NextExport ==
  \/ /\ \E transaction \in InputTransactions : AddTransaction(transaction)
     /\ exported' = KeptAfter(FALSE)
     /\ UNCHANGED recordVars
  \/ /\ \E arg \in MineArguments : MineBlock(arg)
     /\ exported' = KeptAfter(FALSE)
     /\ UNCHANGED recordVars
  \/ /\ ProofOfWork
     /\ exported' = KeptAfter(FALSE)
     /\ UNCHANGED recordVars
  \/ /\ \E maxAgeInHours \in MaxAges : CleanupOldPendingTransactions(maxAgeInHours)
     /\ exported' = KeptAfter(TRUE)
     /\ UNCHANGED recordVars
  \/ /\ ~exported.held
     /\ \E data \in Snapshots : ImportBlockchain(data)
     /\ UNCHANGED <<recordVars, exported>>
  \/ Tick /\ UNCHANGED <<recordVars, exported>>
  \/ ExportBlockchainCall /\ UNCHANGED recordVars
  \/ ImportKept /\ UNCHANGED recordVars

SpecExport == Init /\ [][NextExport]_vars

\* ------------------------------------------ PUT /:id/confirm, PUT /:id/fail
\* Transaction.findById(id)
FindById(id) == IF id \in DOMAIN records THEN records[id] ELSE NoDocument

\* the handler up to its first await: the document is read
\* (the fail handler first answers 400 when the body has no reason; findById
\* rejects with a CastError when the id is no ObjectId, which the catch
\* block answers with 500)
Receive(q, kind, id, hasReason) ==
  /\ requests[q].phase = "idle"
  /\ requests' = [requests EXCEPT ![q] =
        IF kind = "fail" /\ ~hasReason
        THEN Request("idle", "none", "none", NoDocument, 400)
        ELSE IF ~IsObjectId(id)
        THEN Request("idle", "none", "none", NoDocument, 500)
        ELSE Request("found", kind, id, FindById(id), 0)]
  /\ UNCHANGED records

\* transactionSchema.methods.confirm and fail, on the in-memory document
ConfirmDocument(doc, validator) ==
  [doc EXCEPT !.status = "confirmed",
              !.confirmations = @ + 1,
              !.confirmedBy = Append(@, validator)]

FailDocument(doc, reason) == [doc EXCEPT !.status = "failed"]

\* save(): the modified paths status and confirmation.confirmations are $set
\* from the in-memory document, the new confirmedBy entry is $push-ed onto
\* the stored array
Saved(stored, doc, kind, validator) ==
  IF kind = "confirm"
  THEN Document(ConfirmDocument(doc, validator).status,
                ConfirmDocument(doc, validator).confirmations,
                Append(stored.confirmedBy, validator))
  ELSE Document(FailDocument(doc, "reason").status, stored.confirmations, stored.confirmedBy)

\* the check on the document read, as the handlers make it
IsPending(doc) == doc.status = "pending"

\* the handler after findById: 404, 400, or the method call and the response.
\* confirm and fail call save() twice without awaiting the first (through
\* addHistoryEntry); the first save stores the change, the second may be
\* rejected as a parallel save, which the handler answers with 500
Respond(q) ==
  /\ requests[q].phase = "found"
  /\ LET r == requests[q]
     IN IF r.doc = NoDocument
        THEN /\ requests' = [requests EXCEPT ![q] = Request("idle", "none", "none", NoDocument, 404)]
             /\ UNCHANGED records
        ELSE IF ~IsPending(r.doc)
        THEN /\ requests' = [requests EXCEPT ![q] = Request("idle", "none", "none", NoDocument, 400)]
             /\ UNCHANGED records
        ELSE /\ records' = [records EXCEPT ![r.id] = Saved(records[r.id], r.doc, r.kind, "v1")]
             /\ \E code \in {200, 500} :
                  requests' = [requests EXCEPT ![q] = Request("idle", "none", "none", NoDocument, code)]

NextRecords ==
  \/ (\E q \in 1..MaxRequests, kind \in {"confirm", "fail"}, id \in RequestedIds,
          hasReason \in BOOLEAN :
        Receive(q, kind, id, hasReason)) /\ UNCHANGED <<ledgerVars, exported>>
  \/ (\E q \in 1..MaxRequests : Respond(q)) /\ UNCHANGED <<ledgerVars, exported>>

SpecRecords == Init /\ [][NextRecords]_vars

\* ================================================================ properties
\* a mineBlock call returns in this step
MineCompleted == pc = "mining" /\ pc' = "idle"

\* addTransaction admits a transaction in this step
AddAdmitted ==
  /\ result'.op = "addTransaction"
  /\ Len(pendingTransactions') = Len(pendingTransactions) + 1

Recomputed(b) ==
  CalculateHash(b.index, b.timestamp, b.transactions, b.previousHash, b.nonce)

\* hash has at least n characters and its first n are all '0'
LeadingZeros(hash, n) ==
  \A k \in 1..n : k <= Len(hash) /\ hash[k] = "0"

\* C1: a freshly constructed ledger has exactly one block, with index 0 and
\* previousHash "0", an empty pool, and isChainValid() is true.
C1_GenesisInvariant ==
  result.op = "constructor" =>
    /\ Len(chain) = 1
    /\ chain[1].index = 0
    /\ chain[1].previousHash = <<"0">>
    /\ pendingTransactions = <<>>
    /\ IsChainValid

C1_Witness ==
  result.op = "constructor" /\ Len(chain) = 1 /\ pc = "idle"

\* C2: every mineBlock call that returns has appended exactly one block, whose
\* index is the previous latest index + 1, whose previousHash is the previous
\* latest block's hash, and whose hash starts with `difficulty` characters '0'.
C2_MiningMonotonicity ==
  [][MineCompleted =>
       /\ Len(chain') = Len(chain) + 1
       /\ SubSeq(chain', 1, Len(chain)) = chain
       /\ chain'[Len(chain')].index = chain[Len(chain)].index + 1
       /\ chain'[Len(chain')].previousHash = chain[Len(chain)].hash
       /\ LeadingZeros(chain'[Len(chain')].hash, ToIntegerOrInfinity(difficulty))]_vars

C2_Witness ==
  result = Result("mineBlock", "returned", 0) /\ Len(chain) >= 2

C4_Linkage ==
  \A i \in DOMAIN chain :
    i > 1 => chain[i].previousHash = chain[i - 1].hash

C4_Witness ==
  /\ Len(chain) >= 2
  /\ chain[2].previousHash = chain[1].hash
  /\ result = Result("mineBlock", "returned", 0)

\* every way of changing exactly one field of block b
TamperedBlocks(b) ==
  {[b EXCEPT !.index = @ + 1],
   [b EXCEPT !.timestamp = @ + 1],
   [b EXCEPT !.transactions = Append(@, SnapshotTransaction("d2", <<"h", "2">>))],
   [b EXCEPT !.previousHash = <<"x">>],
   [b EXCEPT !.hash = <<"x">>],
   [b EXCEPT !.nonce = @ + 1]}

\* C5: on a chain for which isChainValid() is true, changing any single field
\* of any block other than the latest one (the genesis block included) makes
\* isChainValid() false.
C5_TamperDetected ==
  IsChainValid =>
    \A i \in 1..(Len(chain) - 1) :
      \A t \in TamperedBlocks(chain[i]) :
        ~IsChainValidOf([chain EXCEPT ![i] = t])

\* C6: addTransaction never admits a transaction whose computed hash equals
\* the hash of a transaction already in the pool or in a block: the pool
\* grows only by entries whose hash was absent before the call.
C6_DuplicateRejected ==
  [][AddAdmitted =>
       ~TransactionExists(pendingTransactions'[Len(pendingTransactions')].hash)]_vars

\* C7: in every reachable state no two pool entries have the same hash, and
\* no pool entry has the hash of a transaction contained in a block.
C7_PoolHashesUnique ==
  /\ \A j, k \in DOMAIN pendingTransactions :
       pendingTransactions[j].hash = pendingTransactions[k].hash => j = k
  /\ \A j \in DOMAIN pendingTransactions : \A i \in DOMAIN chain :
       ~SomeHash(chain[i].transactions, pendingTransactions[j].hash)

\* C8: once mineBlock has returned, the transactions it was given are absent
\* from the pool and are in the new block with blockNumber equal to that
\* block's index.
C8_PoolToChainMigration ==
  (result = Result("mineBlock", "returned", 0)) =>
    \A j \in DOMAIN chain[Len(chain)].transactions :
      /\ chain[Len(chain)].transactions[j].blockNumber = chain[Len(chain)].index
      /\ ~SomeHash(pendingTransactions, chain[Len(chain)].transactions[j].hash)

\* C9: every transaction hash occurs in at most one block of the chain and
\* at most once inside that block.
C9_SealedOnce ==
  \A i1, i2 \in DOMAIN chain :
    \A j1 \in DOMAIN chain[i1].transactions :
      \A j2 \in DOMAIN chain[i2].transactions :
        chain[i1].transactions[j1].hash = chain[i2].transactions[j2].hash
          => (i1 = i2 /\ j1 = j2)

\* C10: importBlockchain(exportBlockchain()) succeeds in every reachable
\* state and leaves the chain (so its length and latest hash), the pool and
\* the difficulty as they were, hence also the value of isChainValid().
C10_ExportImportRoundTrip ==
  [][(result'.op = "importExported" /\ pc = "idle") =>
       /\ result'.status = "returned"
       /\ chain' = chain
       /\ pendingTransactions' = pendingTransactions
       /\ difficulty' = difficulty
       /\ IsChainValid' = IsChainValid]_vars

C10_Witness ==
  /\ result = Result("importExported", "returned", 0)
  /\ Len(chain) >= 2
  /\ Len(pendingTransactions) >= 1
  /\ difficulty = JsNumber(0, TRUE)

\* C11: importBlockchain signals an error when the snapshot has no chain
\* (invalid format) or when some block's previousHash differs from the hash
\* of the block before it (corrupted chain); in both cases the chain, the
\* pool and the difficulty are exactly as before the call.
BrokenLinkage(c) ==
  \E i \in 1..(Len(c) - 1) : c[i + 1].previousHash # c[i].hash

C11_ImportRejects ==
  [][\A data \in Snapshots :
       (ImportBlockchain(data) /\ (~data.hasChain \/ BrokenLinkage(data.chain)))
         => /\ result'.op = "importBlockchain"
            /\ result'.status = "threw"
            /\ result'.value = (IF data.hasChain THEN 1 ELSE 0)
            /\ chain' = chain
            /\ pendingTransactions' = pendingTransactions
            /\ difficulty' = difficulty]_vars

\* a corrupted snapshot was refused by a ledger that had a pool to lose
C11_Witness ==
  /\ result = Result("importBlockchain", "threw", 1)
  /\ Len(pendingTransactions) >= 1
  /\ Len(chain) >= 1

\* C12: in every reachable state, also after a successful import, the chain
\* holds at least one block, so getLatestBlock() always returns a block.
C12_ChainNeverEmpty ==
  Len(chain) >= 1

\* C13: getTransactionStatus(h) reports 'confirmed' with the sealing block's
\* index as blockNumber and chain.length - index as confirmations when h is
\* in some block (the chain is looked at before the pool); otherwise
\* 'pending' with blockNumber null and 0 confirmations when h is in the
\* pool; otherwise not found. A transaction sealed in the block of index 1
\* of a two-block chain reports blockNumber 1 and 1 confirmation.
SealedAt(h, i) ==
  \E k \in 1..Len(chain[i].transactions) : chain[i].transactions[k].hash = h

Pooled(h) ==
  \E k \in 1..Len(pendingTransactions) : pendingTransactions[k].hash = h

C13_StatusReport ==
  \A h \in StatusHashes :
    LET s == GetTransactionStatus(h)
    IN /\ \A i \in 1..Len(chain) :
            (SealedAt(h, i) /\ \A j \in 1..(i - 1) : ~SealedAt(h, j))
              => /\ s.status = "confirmed"
                 /\ s.blockNumber = chain[i].index
                 /\ s.confirmations = Len(chain) - chain[i].index
                 /\ (Len(chain) = 2 /\ chain[i].index = 1)
                      => (s.blockNumber = 1 /\ s.confirmations = 1)
       /\ ((\A i \in 1..Len(chain) : ~SealedAt(h, i)) /\ Pooled(h))
            => /\ s.status = "pending"
               /\ s.blockNumber = null
               /\ s.confirmations = 0
       /\ ((\A i \in 1..Len(chain) : ~SealedAt(h, i)) /\ ~Pooled(h))
            => s = NullStatus

\* a mined two-block chain whose second block (index 1) holds a transaction
\* that is also still in the pool: reported confirmed, block 1, 1 confirmation
C13_Witness ==
  /\ Len(chain) = 2
  /\ chain[2].index = 1
  /\ SealedAt(ObjectObject, 2)
  /\ ~SealedAt(ObjectObject, 1)
  /\ Pooled(ObjectObject)
  /\ result = Result("mineBlock", "returned", 0)
  /\ GetTransactionStatus(ObjectObject).status = "confirmed"
  /\ GetTransactionStatus(ObjectObject).confirmations = 1

\* C14: isValidTransaction returns false (and does not throw) when type,
\* signedBy or data is absent, and addTransaction on such a transaction
\* throws the invalid-transaction error and leaves the pool and the chain
\* unchanged.
MissingField(tx) ==
  tx.type = "" \/ tx.signedBy = "" \/ tx.data = "undefined"

C14_InvalidRejected ==
  [][\A tx \in InputTransactions :
       MissingField(tx)
         => /\ IsValidTransaction(tx) = FALSE
            /\ AddTransaction(tx)
                 => /\ result' = Result("addTransaction", "threw", 0)
                    /\ pendingTransactions' = pendingTransactions
                    /\ chain' = chain]_vars

\* addTransaction threw on a ledger that holds no transaction at all, so the
\* rejection cannot be the duplicate check: a required field was missing
C14_Witness ==
  /\ result = Result("addTransaction", "threw", 0)
  /\ pendingTransactions = <<>>
  /\ \A i \in DOMAIN chain : chain[i].transactions = <<>>

\* C15: a successful addTransaction appends exactly one entry to the end of
\* the pool (earlier entries and their order unchanged), the entry has a
\* hash and blockNumber = null, and the chain is unchanged.
C15_AddAppendsOne ==
  [][(\E tx \in InputTransactions : AddTransaction(tx) /\ result'.status = "returned")
       => /\ Len(pendingTransactions') = Len(pendingTransactions) + 1
          /\ SubSeq(pendingTransactions', 1, Len(pendingTransactions)) = pendingTransactions
          /\ pendingTransactions'[Len(pendingTransactions')].hash # undefined
          /\ pendingTransactions'[Len(pendingTransactions')].blockNumber = null
          /\ chain' = chain]_vars

\* C16: a confirm or fail request for a record whose status is not 'pending'
\* is rejected and leaves the record's status, confirmation count and
\* confirmedBy list unchanged; a request for an unknown identifier is
\* rejected as not found; a request on a pending record moves it to
\* 'confirmed' or 'failed' respectively.
Answered(q) == requests'[q].phase = "idle" /\ requests'[q] # requests[q]

C16_SettledRejected ==
  [][\A q \in 1..MaxRequests :
       /\ \A kind \in {"confirm", "fail"}, id \in RequestedIds :
            (Receive(q, kind, id, TRUE) /\ id \notin TransactionIds /\ Answered(q))
              => requests'[q].code = 404
       /\ Respond(q)
            => /\ requests[q].id \notin TransactionIds
                 => (requests'[q].code = 404 /\ records' = records)
               /\ (requests[q].id \in TransactionIds /\ requests[q].doc.status # "pending")
                 => (requests'[q].code = 400 /\ records' = records)
               /\ (requests[q].id \in TransactionIds /\ requests[q].doc.status = "pending")
                 => records'[requests[q].id].status =
                      (IF requests[q].kind = "confirm" THEN "confirmed" ELSE "failed")]_vars

\* C17: cleanupOldPendingTransactions(maxAge) removes from the pool exactly
\* the entries whose timestamp is not later than now - maxAge hours, returns
\* the number of entries removed, keeps the remaining entries in their
\* original order, and leaves the chain and the difficulty unchanged.
Expired(tx, maxAge) == tx.timestamp <= now - maxAge * 3600000

Remaining(maxAge) ==
  SelectSeq(pendingTransactions, LAMBDA tx : ~Expired(tx, maxAge))

C17_CleanupRemovesExpired ==
  [][\A maxAge \in MaxAges :
       CleanupOldPendingTransactions(maxAge)
         => /\ pendingTransactions' = Remaining(maxAge)
            /\ result'.status = "returned"
            /\ result'.value = Cardinality({k \in DOMAIN pendingTransactions :
                                              Expired(pendingTransactions[k], maxAge)})
            /\ chain' = chain
            /\ difficulty' = difficulty]_vars

\* a cleanup removed the entry that sat exactly at the cutoff and kept the
\* younger one
C17_Witness ==
  /\ result = Result("cleanupOldPendingTransactions", "returned", 1)
  /\ Len(pendingTransactions) = 1
  /\ pendingTransactions[1].timestamp = now
  /\ now > 0

\* C18: for every transaction list and the configured difficulty, the
\* proof-of-work search of mineBlock, trying nonce 0, 1, 2, ..., finds a
\* digest with `difficulty` leading zero characters, so the search ends and
\* mineBlock returns.  Stated on the search in progress: some nonce from the
\* current one on yields a digest with the required prefix.
C18_SearchTerminates ==
  pc = "mining"
    => \E nonce \in mining.nonce..MaxNonce :
         HasPrefix(CalculateHash(mining.newIndex, mining.newTimestamp,
                                 mining.transactions, mining.previousHash, nonce),
                   difficulty)

\* C19: a block appended by mineBlock keeps all its fields, the contents of
\* its transactions list included, in every later state reached by
\* addTransaction, mineBlock or cleanupOldPendingTransactions, also when
\* mineBlock was given the live pendingTransactions array; the chain only
\* grows by appending.
C19_SealedBlocksImmutable ==
  [][result'.op \in {"addTransaction", "mineBlock", "cleanupOldPendingTransactions"}
       => /\ Len(chain') >= Len(chain)
          /\ \A i \in 1..Len(chain) : chain'[i] = chain[i]]_vars

\* C20: the status record only moves pending -> confirmed or pending ->
\* failed and these states are terminal: under any interleaving of
\* concurrent confirm and fail requests on the same transaction, a record
\* that has become confirmed or failed never changes status or confirmation
\* count again (at most one request takes effect).
C20_TerminalStatus ==
  [][\A id \in TransactionIds :
       records[id].status # "pending"
         => /\ records'[id].status = records[id].status
            /\ records'[id].confirmations = records[id].confirmations
            /\ records'[id].confirmedBy = records[id].confirmedBy]_vars

WrongHash(b) ==
  b.hash # CalculateHash(b.index, b.timestamp, b.transactions, b.previousHash, b.nonce)

C22_ImportThenInvalid ==
  [][\A data \in Snapshots :
       (/\ ImportBlockchain(data)
        /\ data.hasChain
        /\ ~BrokenLinkage(data.chain)
        /\ \E i \in 1..Len(data.chain) : WrongHash(data.chain[i]))
         => /\ result' = Result("importBlockchain", "returned", 0)
            /\ chain' = data.chain
            /\ IsChainValidOf(chain') = FALSE]_vars

\* C22 as amended: the same for a wrong stored hash in a block other than
\* the first one (isChainValid does not recompute the first block's hash).
C22_ImportThenInvalidAfterFirst ==
  [][\A data \in Snapshots :
       (/\ ImportBlockchain(data)
        /\ data.hasChain
        /\ ~BrokenLinkage(data.chain)
        /\ \E i \in 2..Len(data.chain) : WrongHash(data.chain[i]))
         => /\ result' = Result("importBlockchain", "returned", 0)
            /\ chain' = data.chain
            /\ IsChainValidOf(chain') = FALSE]_vars

\* a linked snapshot with a wrong hash in its second block was imported
C22_Witness ==
  /\ result = Result("importBlockchain", "returned", 0)
  /\ Len(chain) = 2
  /\ chain[2].previousHash = chain[1].hash
  /\ WrongHash(chain[2])
  /\ ~IsChainValid

\* C23: a successful importBlockchain(snapshot) replaces the chain and the
\* pool wholesale: afterwards the chain equals snapshot.chain and the pool
\* equals snapshot.pendingTransactions (empty when the snapshot has none);
\* no block or pool entry of the previous state is retained.
C23_ImportReplaces ==
  [][\A data \in Snapshots :
       (ImportBlockchain(data) /\ result'.status = "returned")
         => /\ chain' = data.chain
            /\ pendingTransactions' =
                 (IF data.hasPending THEN data.pendingTransactions ELSE <<>>)]_vars

\* a snapshot without pool was imported after an earlier import had set the
\* difficulty: the single imported block is all there is
C23_Witness ==
  /\ result = Result("importBlockchain", "returned", 0)
  /\ chain = <<SnapshotBadFirstBlock>>
  /\ pendingTransactions = <<>>
  /\ difficulty = JsNumber(0, TRUE)
  /\ now > 0

\* C24: isChainValid() returns true exactly when, for every i from 1 to the
\* end of the chain, chain[i].previousHash equals chain[i-1].hash and the
\* digest recomputed from chain[i]'s stored index, timestamp, transactions,
\* previousHash and nonce equals chain[i].hash; it returns false otherwise
\* and never modifies the chain or the pool.
Unsound(i) ==
  \/ chain[i].previousHash # chain[i - 1].hash
  \/ WrongHash(chain[i])

C24_ValidityCharacterised ==
  [][IsChainValidCall
       => /\ result'.value \in {0, 1}
          /\ (result'.value = 1) <=> ~(\E i \in 2..Len(chain) : Unsound(i))
          /\ chain' = chain
          /\ pendingTransactions' = pendingTransactions]_vars

\* isChainValid() returned false on a linked two-block chain whose second
\* block carries a wrong hash
C24_Witness ==
  /\ result = Result("isChainValid", "returned", 0)
  /\ Len(chain) = 2
  /\ chain[2].previousHash = chain[1].hash
  /\ chain[2].hash # Recomputed(chain[2])

\* C25: getTransactionHistory(h) returns events ordered oldest-first with at
\* most one 'created' and at most one 'mined' event, 'created' before
\* 'mined': it is empty for an unknown hash, ['created'] for a hash that is
\* only in the pool, and ends with a 'mined' event carrying the sealing
\* block's index and hash for a hash in the chain.
Actions(history) == [k \in 1..Len(history) |-> history[k].action]

C25_HistoryOrdered ==
  \A h \in StatusHashes :
    LET history == GetTransactionHistory(h)
        sealed == \E i \in 1..Len(chain) : SealedAt(h, i)
    IN /\ Actions(history) \in {<<>>, <<"created">>, <<"mined">>, <<"created", "mined">>}
       /\ (~sealed /\ ~Pooled(h)) => history = <<>>
       /\ (~sealed /\ Pooled(h)) => Actions(history) = <<"created">>
       /\ \A i \in 1..Len(chain) :
            (SealedAt(h, i) /\ \A j \in 1..(i - 1) : ~SealedAt(h, j))
              => /\ history[Len(history)].action = "mined"
                 /\ history[Len(history)].blockNumber = chain[i].index
                 /\ history[Len(history)].blockHash = chain[i].hash
       /\ Len(history) = 2 => history[1].timestamp <= history[2].timestamp

\* C26: whenever isChainValid() is false the health endpoints surface it:
\* GET /health reports a status other than 'healthy' and GET /health/ready
\* answers not_ready.
C26_IntegritySurfaced ==
  IsChainValid = FALSE
    => \A dbConnected \in BOOLEAN :
         /\ HealthStatus(dbConnected) # "healthy"
         /\ ReadyStatus(dbConnected) = "not_ready"

\* C27: in every reachable state getBlockchainStats() reports totalBlocks =
\* chain.length, pendingTransactions = the pool's length, totalTransactions
\* = the sum of the transaction counts of all blocks, lastBlockHash = the
\* latest block's hash and chainIntegrity = the value of isChainValid(), and
\* it modifies neither the chain nor the pool.
SealedEntries ==
  {<<i, k>> \in (1..Len(chain)) \X (1..MaxPool + 1) : k <= Len(chain[i].transactions)}

C27_StatsReport ==
  [][GetBlockchainStatsCall
       => /\ result'.status = "returned"
          /\ GetBlockchainStats.totalBlocks = Len(chain)
          /\ GetBlockchainStats.pendingTransactions = Len(pendingTransactions)
          /\ GetBlockchainStats.totalTransactions = Cardinality(SealedEntries)
          /\ result'.value = Cardinality(SealedEntries)
          /\ GetBlockchainStats.lastBlockHash = chain[Len(chain)].hash
          /\ GetBlockchainStats.chainIntegrity = IsChainValid
          /\ chain' = chain
          /\ pendingTransactions' = pendingTransactions]_vars

\* C28: a snapshot returned by exportBlockchain() is a stable copy: later
\* addTransaction, mineBlock or cleanupOldPendingTransactions calls on the
\* ledger change neither the snapshot's chain nor its pendingTransactions.
C28_SnapshotStable ==
  [][(exported.held /\ result'.op \in {"addTransaction", "mineBlock",
                                       "cleanupOldPendingTransactions"})
       => /\ exported'.chain = exported.chain
          /\ exported'.pendingTransactions = exported.pendingTransactions]_vars

\* C29: in every state reachable through the public operations, successful
\* imports included, each block's index equals its position in the chain
\* (positions counted from 0, as the code does).
C29_IndexIsPosition ==
  \A i \in 1..Len(chain) : chain[i].index = i - 1

\* C30: for a transaction sealed in a block, the confirmations reported by
\* getTransactionStatus never decrease across later addTransaction,
\* mineBlock and cleanupOldPendingTransactions calls and increase by exactly
\* 1 with each later completed mineBlock; a transaction reported
\* 'confirmed' is never later reported 'pending' or not found.
C30_ConfirmationsGrow ==
  [][(/\ result'.op \in {"addTransaction", "mineBlock", "cleanupOldPendingTransactions"}
      /\ <<chain, pendingTransactions>>' # <<chain, pendingTransactions>>)
       => \A h \in StatusHashes :
            GetTransactionStatus(h).status = "confirmed"
              => /\ GetTransactionStatus(h)'.status = "confirmed"
                 /\ GetTransactionStatus(h)'.confirmations
                      >= GetTransactionStatus(h).confirmations
                 /\ MineCompleted
                      => GetTransactionStatus(h)'.confirmations
                           = GetTransactionStatus(h).confirmations + 1]_vars

\* a block was mined on top of the block that seals H1: H1 is now reported
\* with two confirmations
C30_Witness ==
  /\ result = Result("mineBlock", "returned", 0)
  /\ Len(chain) = 2
  /\ SealedAt(H1, 1)
  /\ GetTransactionStatus(H1).status = "confirmed"
  /\ GetTransactionStatus(H1).confirmations = 2

====
